---- MODULE Spec2Model ----
(***************************************************************************)
(* graphism.graph.Graph: the node registry, the infected index, the        *)
(* infection / recovery wrappers, the discrete propagate / recover ticks   *)
(* and the default transmission probability, as a state machine.           *)
(*                                                                         *)
(* A Node instance is a pair <<name, k>>: k tells apart Node objects that  *)
(* carry the same name.  graphism.node.Node and graphism.edge.Edge are     *)
(* collaborators of Graph; their operations (Node*, AddChild, Degree,      *)
(* NodeEq) follow the capability set the specification gives for them.     *)
(* Edge type_ and weight_ are carried through by Graph without being read  *)
(* and are left out of the state.                                          *)
(*                                                                         *)
(* Spec is the Graph with all its calls.  SpecTP is the Graph built with   *)
(* the default rule only, up to MaxDegree edges, where the rule bound to   *)
(* a node is evaluated.                                                    *)
(***************************************************************************)
EXTENDS Integers, FiniteSets, Sequences, TLC

\* ------------------------------------------------------------------ bounds
MaxNodes == 3        \* Node objects alive at once
MaxEdges == 2        \* add_child calls made in all
MaxCallerNodes == 1  \* Node objects the caller constructs itself
MaxDegree == 6       \* add_child calls made in all, where only the default
                     \*   transmission probability is evaluated (SpecTP)

Names == {1, 2, 3}
Copies == 1..MaxNodes
Inst == Names \X Copies
NoNode == <<0, 0>>
NoEdge == [child |-> NoNode, mult |-> 0]
CallbackIds == {"callback"}
UserTPs == {"one", "zero"}
TPArgs == {"None", "user"}
Missing == 0         \* in a record of graph=: the key from_ (or to_) is absent

VARIABLES
    nodes,          \* Graph.__nodes: name -> Node instance (NoNode: no key)
    infected,       \* Graph.__infected: name -> Node instance (NoNode: no key)
    edges,          \* Node.edges() of every instance: child name -> Edge
    nodeTP,         \* the transmission-probability function bound to a Node:
                    \*   "absent" (no such object), "default" (Graph's tp), or
                    \*   "user" (the caller's function)
    userTP,         \* the caller's function: "one" (always 1.0), "zero" (always 0.0)
    callerNodes,    \* how many Node objects the caller has constructed itself
    call            \* what the last Graph call did (see Log0)

vars == <<nodes, infected, edges, nodeTP, userTP, callerNodes, call>>

\* ------------------------------------------------------- Node collaborator
\* Node.name()
Name(n) == n[1]

\* Node identity is the name (two Node objects of one name are equal as set
\* members).
NodeEq(a, b) == Name(a) = Name(b)

Created(tp) == {n \in Inst : tp[n] # "absent"}

\* Node(name=...): the next unused object of that name.
Fresh(name, used) ==
    <<name, CHOOSE k \in Copies :
                /\ <<name, k>> \notin used
                /\ \A j \in 1..(k - 1) : <<name, j>> \in used>>

CanCreate(used, howMany) == Cardinality(used) + howMany <= MaxNodes

\* Node.add_child(child): a first call creates the Edge to that child name, a
\* later one increments its multiplicity.
AddChild(e, p, c) ==
    IF e[p][Name(c)].mult = 0
    THEN [e EXCEPT ![p][Name(c)] = [child |-> c, mult |-> 1]]
    ELSE [e EXCEPT ![p][Name(c)].mult = @ + 1]

RECURSIVE SumMult(_, _)
SumMult(f, S) ==
    IF S = {} THEN 0
    ELSE LET x == CHOOSE y \in S : TRUE
         IN f[x].mult + SumMult(f, S \ {x})

\* Node.degree(): the sum of the multiplicities of the node's edges.
Degree(e, n) == SumMult(e[n], Names)

\* The names of the children n has an edge to.
Children(e, n) == {c \in Names : e[n][c].mult > 0}

\* -------------------------------------------------------- float arithmetic
\* A Python float that is 0.0 or lies in [2^-8, 2] is a multiple of 2^-60.  It
\* is held as that multiple, in three limbs <<hi, mid, lo>> of 20 bits each
\* (value = (hi * 2^40 + mid * 2^20 + lo) / 2^60).
Limb == 2^20
Zero == <<0, 0, 0>>
One == <<Limb, 0, 0>>

RECURSIVE Log2(_)
Log2(x) == IF x < 2 THEN 0 ELSE 1 + Log2(x \div 2)

Carry(x) ==
    LET c1 == x[3] \div Limb
        c2 == (x[2] + c1) \div Limb
    IN <<x[1] + c2, (x[2] + c1) % Limb, x[3] % Limb>>

\* The double nearest to x + r/d units of 2^-60 (0 <= r < d): 53 significant
\* bits, round to nearest, ties to even.
RoundDouble(x, r, d) ==
    IF x[1] < 2^12 THEN x
    ELSE LET u == 2^(Log2(x[1]) - 12)
             low == x[3] % u
             twice == 2 * (low * d + r)
             odd == (x[3] \div u) % 2 = 1
         IN IF twice > u * d \/ (twice = u * d /\ odd)
            THEN Carry(<<x[1], x[2], x[3] - low + u>>)
            ELSE <<x[1], x[2], x[3] - low>>

\* float(m) / float(d) for integers 0 < m <= d <= 256.
FloatDiv(m, d) ==
    LET r1 == (m * Limb) % d
        r2 == (r1 * Limb) % d
    IN RoundDouble(<<(m * Limb) \div d, (r1 * Limb) \div d, (r2 * Limb) \div d>>,
                   (r2 * Limb) % d, d)

\* The float sum x + y.
FloatAdd(x, y) ==
    RoundDouble(Carry(<<x[1] + y[1], x[2] + y[2], x[3] + y[3]>>), 0, 1)

\* x <= y, as numbers.
FloatLeq(x, y) ==
    \/ x[1] < y[1]
    \/ x[1] = y[1] /\ x[2] < y[2]
    \/ x[1] = y[1] /\ x[2] = y[2] /\ x[3] <= y[3]

\* The Node objects n draws against in a propagate step: the children of the
\* edges it owns.
DrawsAgainst(e, n) == {e[n][c].child : c \in Children(e, n)}

\* ----------------------------------------------- transmission probability
\* What evaluating a function gives: the value it returns, or the error it
\* raises.
Returns(v) == [raises |-> "None", value |-> v]
Raises(error) == [raises |-> error, value |-> Zero]

\* A rule that divides by the number of distinct children.
tp_by_children(e, from_node, to_node) ==
    IF e[from_node][Name(to_node)].mult = 0 THEN Raises("KeyError")
    ELSE Returns(FloatDiv(e[from_node][Name(to_node)].mult,
                          Cardinality(Children(e, from_node))))

\* Graph.__init__.tp.  "from_node.edges()[to_node.name()]" comes first: edges()
\* is a mapping from child name to Edge, and a name that is no key of it
\* raises KeyError.
tp(e, from_node, to_node) ==
    IF e[from_node][Name(to_node)].mult = 0 THEN Raises("KeyError")
    ELSE LET multiplicity == e[from_node][Name(to_node)].mult
             degree == Degree(e, from_node)
         IN IF degree = 0 THEN Returns(Zero)
                          ELSE Returns(FloatDiv(multiplicity, degree))

\* The probability Node.propagate draws against for its edge to c: the
\* function bound to n, applied to (n, c).
TransmissionProbability(e, tpOf, u, n, c) ==
    CASE tpOf[n] = "user" /\ u = "one" -> One
      [] tpOf[n] = "user" /\ u = "zero" -> Zero
      [] OTHER -> tp(e, n, c).value

\* ------------------------------------------------------------ the call log
\* The running state of one Graph call: the infected index, and the events of
\* the call in the order they happen.  An event is <<kind, node, other>>:
\*   "Node.infect", "Node.propagate", "Node.recover"  a Node method starts on node
\*   "draw"               node draws against its edge to the Node other
\*   "i", "r"             the infection / recovery wrapper is invoked on node
\*   "add", "pop"         the wrapper adds / removes the key of node
\*   "callback"           the caller's infection callback runs on node, whose
\*                        name is a key of the index at that moment
\*   "callback unindexed" the same, the name not being a key
\*   "recovery callback"  the caller's recovery callback runs on node
Log0(inf) == [infected |-> inf, events |-> <<>>]

Ev(kind, n) == <<kind, n, NoNode>>

Emit(s, ev) == [s EXCEPT !.events = Append(@, ev)]

\* ------------------------------------------------ infection and recovery
\* The caller's infection callback (the argument of set_infection) runs on n.
Callback(callback, n, s) ==
    Emit(s, Ev(IF s.infected[Name(n)] = NoNode THEN "callback unindexed"
                                              ELSE "callback", n))

\* A wrapper that runs the callback before it updates the index.
ICallbackFirst(callback, n, s) ==
    LET s1 == Callback(callback, n, Emit(s, Ev("i", n)))
    IN IF s1.infected[Name(n)] = NoNode
       THEN Emit([s1 EXCEPT !.infected[Name(n)] = n], Ev("add", n))
       ELSE s1

\* A wrapper that stores the node under its name whether or not the name is
\* already a key.
IOverwrite(callback, n, s) ==
    Callback(callback, n,
             Emit([Emit(s, Ev("i", n)) EXCEPT !.infected[Name(n)] = n], Ev("add", n)))

\* A wrapper that runs the callback only for a node it has just added.
ICallbackIfNew(callback, n, s) ==
    LET s0 == Emit(s, Ev("i", n))
    IN IF s0.infected[Name(n)] = NoNode
       THEN Callback(callback, n,
                     Emit([s0 EXCEPT !.infected[Name(n)] = n], Ev("add", n)))
       ELSE s0

\* Graph.set_infection.i: add n under its name unless the name is a key, then
\* run the callback.
I(callback, n, s) ==
    LET s0 == Emit(s, Ev("i", n))
        s1 == IF s0.infected[Name(n)] = NoNode
              THEN Emit([s0 EXCEPT !.infected[Name(n)] = n], Ev("add", n))
              ELSE s0
    IN Callback(callback, n, s1)

\* A recovery wrapper that leaves the index alone.
RNoPop(callback, n, s) == Emit(s, Ev("r", n))

\* Graph.set_recovery.r: pop the name of n if it is a key.  The callback
\* argument of set_recovery is captured and never called.
R(callback, n, s) ==
    LET s0 == Emit(s, Ev("r", n))
    IN IF s0.infected[Name(n)] # NoNode
       THEN Emit([s0 EXCEPT !.infected[Name(n)] = NoNode], Ev("pop", n))
       ELSE s0

\* Graph.__infection / Graph.__recovery as passed to a Node method: which
\* wrapper, and the callback it captured.
Invoke(proc, n, s) ==
    IF proc.wrapper = "i" THEN I(proc.callback, n, s)
                          ELSE R(proc.callback, n, s)

\* Node.infect(callback): the callback runs on the node itself.
NodeInfect(n, proc, s) == Invoke(proc, n, Emit(s, Ev("Node.infect", n)))

\* Node.propagate(callback): one draw per edge of n (D holds the draws that
\* succeed), the callback runs on the child of every successful draw.  The
\* children of one node have distinct names, so the order of its edges does
\* not change the result; they are taken by ascending name.
RECURSIVE PropagateEdges(_, _, _, _, _, _)
PropagateEdges(e, n, todo, proc, s, D) ==
    IF todo = {} THEN s
    ELSE LET c == CHOOSE x \in todo : \A y \in todo : x <= y
             child == e[n][c].child
             s1 == Emit(s, <<"draw", n, child>>)
             s2 == IF <<n, c>> \in D THEN NodeInfect(child, proc, s1) ELSE s1
         IN PropagateEdges(e, n, todo \ {c}, proc, s2, D)

NodePropagate(e, n, proc, s, D) ==
    PropagateEdges(e, n, Children(e, n), proc, Emit(s, Ev("Node.propagate", n)), D)

\* Node.recover(callback): the node's policy decides (C holds the nodes whose
\* policy says yes) whether the callback runs on the node.
NodeRecover(n, proc, s, C) ==
    LET s1 == Emit(s, Ev("Node.recover", n))
    IN IF n \in C THEN Invoke(proc, n, s1) ELSE s1

\* ------------------------------------------------------------ Graph queries
\* Graph.infected(): a new set of the index's values.
Infected(inf) == {inf[k] : k \in {x \in Names : inf[x] # NoNode}}

\* Graph.nodes()
Nodes(reg) == {reg[k] : k \in {x \in Names : reg[x] # NoNode}}

\* Graph.susceptible(): nodes().difference(infected()), by Node equality.
Susceptible(reg, inf) ==
    {n \in Nodes(reg) : \A m \in Infected(inf) : ~NodeEq(n, m)}

Keys(map) == {x \in Names : map[x] # NoNode}

\* Graph.get_node_by_name
GetNodeByName(reg, name) == reg[name]

\* Graph.add_node: a name that is already a key keeps its instance.
AddNode(reg, node) ==
    IF reg[Name(node)] = NoNode THEN [reg EXCEPT ![Name(node)] = node] ELSE reg

RECURSIVE Perms(_)
Perms(S) ==
    IF S = {} THEN {<<>>}
    ELSE UNION {{<<x>> \o p : p \in Perms(S \ {x})} : x \in S}

RECURSIVE SetToSeq(_)
SetToSeq(S) ==
    IF S = {} THEN <<>>
    ELSE LET x == CHOOSE y \in S : TRUE IN <<x>> \o SetToSeq(S \ {x})

\* The orders in which a loop over the set S of nodes can visit it.  The
\* order decides the outcome only when two visits compete for one name of the
\* index (matters); otherwise one order stands for all.
Orders(S, matters) == IF matters THEN Perms(S) ELSE {SetToSeq(S)}

\* Two seeds carry the same name.
SeedsCompete(S) == \E a \in S, b \in S : a # b /\ NodeEq(a, b)

\* Two infected nodes have an edge to different Node objects of one name.
ChildrenCompete(e, S) ==
    \E a \in S, b \in S, c \in Names :
        /\ e[a][c].mult > 0
        /\ e[b][c].mult > 0
        /\ e[a][c].child # e[b][c].child

\* A loop over the live index: nodes that entered the index during the step
\* are visited as well.
RestLive(todo, before, after) ==
    Tail(todo) \o SetToSeq(Infected(after) \ Infected(before))

\* "for n in self.infected()": infected() built a new set before the loop
\* began, so what is left to visit does not depend on the index.
Rest(todo, before, after) == Tail(todo)


\* ------------------------------------------------------------- Graph steps
\* Graph.propagate: Node.propagate on every node of infected(), in the order
\* the set yields them, with the infection wrapper as callback.
RECURSIVE PropagateLoop(_, _, _, _, _)
PropagateLoop(e, todo, proc, s, D) ==
    IF todo = <<>> THEN s
    ELSE LET s1 == NodePropagate(e, Head(todo), proc, s, D)
         IN PropagateLoop(e, Rest(todo, s.infected, s1.infected), proc, s1, D)

\* Graph.recover: Node.recover on every node of infected(), with the recovery
\* wrapper as callback.
RECURSIVE RecoverLoop(_, _, _, _)
RecoverLoop(todo, proc, s, C) ==
    IF todo = <<>> THEN s
    ELSE LET s1 == NodeRecover(Head(todo), proc, s, C)
         IN RecoverLoop(Rest(todo, s.infected, s1.infected), proc, s1, C)

\* A propagate that infects every neighbour without a draw.
PropagateNoDraw(e, inf, order, D) ==
    PropagateLoop(e, order, [wrapper |-> "i", callback |-> "captured"], Log0(inf),
                  {<<n, c>> : n \in Infected(inf), c \in Names})

\* A propagate that hands the recovery wrapper to Node.propagate.
PropagateWithRecovery(e, inf, order, D) ==
    PropagateLoop(e, order, [wrapper |-> "r", callback |-> "captured"], Log0(inf), D)

\* A propagate that runs the whole tick: the recovery pass follows the
\* propagation pass.
PropagateWholeTick(e, inf, order, D) ==
    RecoverLoop(order, [wrapper |-> "r", callback |-> "captured"],
                PropagateLoop(e, order, [wrapper |-> "i", callback |-> "captured"],
                              Log0(inf), D),
                {order[k] : k \in DOMAIN order})

Propagate(e, inf, order, D) ==
    PropagateLoop(e, order, [wrapper |-> "i", callback |-> "captured"], Log0(inf), D)

\* A recover that stops after the first node.
RecoverFirstOnly(inf, order, C) ==
    RecoverLoop(IF order = <<>> THEN <<>> ELSE <<Head(order)>>,
                [wrapper |-> "r", callback |-> "captured"], Log0(inf), C)

Recover(inf, order, C) ==
    RecoverLoop(order, [wrapper |-> "r", callback |-> "captured"], Log0(inf), C)

\* Graph.infect_seeds: Node.infect on every seed, with the infection wrapper.
RECURSIVE SeedLoop(_, _, _)
SeedLoop(todo, proc, s) ==
    IF todo = <<>> THEN s
    ELSE SeedLoop(Tail(todo), proc, NodeInfect(Head(todo), proc, s))

\* An infect_seeds that infects one seed only.
InfectSeedsFirstOnly(inf, order) ==
    SeedLoop(IF order = <<>> THEN <<>> ELSE <<Head(order)>>,
             [wrapper |-> "i", callback |-> "captured"], Log0(inf))

InfectSeeds(inf, order) ==
    SeedLoop(order, [wrapper |-> "i", callback |-> "captured"], Log0(inf))

\* The draws of one propagate(): one per edge of an infected node.  A draw
\* against probability 1 succeeds, one against probability 0 fails.
DrawsOf(e, tpOf, u, inf) ==
    LET all == {<<n, c>> \in Inst \X Names : n \in Infected(inf) /\ e[n][c].mult > 0}
        must == {d \in all :
                    FloatLeq(One, TransmissionProbability(e, tpOf, u, d[1],
                                                          e[d[1]][d[2]].child))}
        never == {d \in all :
                    TransmissionProbability(e, tpOf, u, d[1], e[d[1]][d[2]].child)
                        = Zero}
    IN {must \cup X : X \in SUBSET (all \ (must \cup never))}

\* ------------------------------------------------------ graph construction
EmptyGraph ==
    [nodes  |-> [x \in Names |-> NoNode],
     edges  |-> [n \in Inst |-> [c \in Names |-> NoEdge]],
     nodeTP |-> [n \in Inst |-> "absent"]]

\* "transmission_probability or self.__transmission_probability"
BoundTP(transmission_probability) ==
    IF transmission_probability = "None" THEN "default" ELSE transmission_probability

\* An add_edge_by_node_sequence that calls add_child inside "if not c".
AddEdgeByNodeSequenceChildOnce(g, parent, child, transmission_probability) ==
    LET p0 == GetNodeByName(g.nodes, parent)
        p == IF p0 = NoNode THEN Fresh(parent, Created(g.nodeTP)) ELSE p0
        tp1 == IF p0 = NoNode
               THEN [g.nodeTP EXCEPT ![p] = BoundTP(transmission_probability)]
               ELSE g.nodeTP
        c0 == GetNodeByName(g.nodes, child)
        c == IF c0 = NoNode THEN Fresh(child, Created(tp1)) ELSE c0
        tp2 == IF c0 = NoNode
               THEN [tp1 EXCEPT ![c] = BoundTP(transmission_probability)]
               ELSE tp1
    IN [nodes  |-> AddNode(AddNode(g.nodes, p), c),
        edges  |-> IF c0 = NoNode THEN AddChild(g.edges, p, c) ELSE g.edges,
        nodeTP |-> tp2]

\* Graph.add_edge_by_node_sequence on the graph g = [nodes, edges, nodeTP].
\* The child is looked up before the parent is registered.
AddEdgeByNodeSequence(g, parent, child, transmission_probability) ==
    LET p0 == GetNodeByName(g.nodes, parent)
        p == IF p0 = NoNode THEN Fresh(parent, Created(g.nodeTP)) ELSE p0
        tp1 == IF p0 = NoNode
               THEN [g.nodeTP EXCEPT ![p] = BoundTP(transmission_probability)]
               ELSE g.nodeTP
        c0 == GetNodeByName(g.nodes, child)
        c == IF c0 = NoNode THEN Fresh(child, Created(tp1)) ELSE c0
        tp2 == IF c0 = NoNode
               THEN [tp1 EXCEPT ![c] = BoundTP(transmission_probability)]
               ELSE tp1
    IN [nodes  |-> AddNode(AddNode(g.nodes, p), c),
        edges  |-> AddChild(g.edges, p, c),
        nodeTP |-> tp2]

RECURSIVE SumDegree(_, _)
SumDegree(e, S) ==
    IF S = {} THEN 0
    ELSE LET n == CHOOSE y \in S : TRUE
         IN Degree(e, n) + SumDegree(e, S \ {n})

\* The add_child calls made so far.
EdgeCount(e) == SumDegree(e, Inst)

\* The bounds leave room for the Node objects and the add_child call this
\* call makes.
Room(g, parent, child) ==
    /\ CanCreate(Created(g.nodeTP),
                 (IF g.nodes[parent] = NoNode THEN 1 ELSE 0)
                 + (IF g.nodes[child] = NoNode THEN 1 ELSE 0))
    /\ EdgeCount(g.edges) < MaxEdges

\* Graph.__init_nodes_from_args: every record goes to
\* add_edge_by_node_sequence(parent, child), the keywords are not passed on.
\* The result is the graph built and the error raised, if any.
RECURSIVE InitNodesFromArgs(_, _)
InitNodesFromArgs(g, graph) ==
    IF graph = <<>> THEN [graph |-> g, raises |-> "None"]
    ELSE InitNodesFromArgs(
             AddEdgeByNodeSequence(g, Head(graph)[1], Head(graph)[2], "None"),
             Tail(graph))

\* A loop that passes over a record without from_ or to_.
RECURSIVE InitNodesFromKwargsSkipping(_, _, _)
InitNodesFromKwargsSkipping(g, graph, transmission_probability) ==
    IF graph = <<>> THEN [graph |-> g, raises |-> "None"]
    ELSE IF Head(graph)[1] = Missing \/ Head(graph)[2] = Missing
    THEN InitNodesFromKwargsSkipping(g, Tail(graph), transmission_probability)
    ELSE InitNodesFromKwargsSkipping(
             AddEdgeByNodeSequence(g, Head(graph)[1], Head(graph)[2],
                                   transmission_probability),
             Tail(graph), transmission_probability)

\* Graph.__init_nodes_from_kwargs: every record goes to
\* add_edge_by_node_sequence with the directed and transmission_probability
\* keywords.  edge['from_'] and edge['to_'] raise KeyError on a record that
\* lacks the key, and the loop ends there.
RECURSIVE InitNodesFromKwargs(_, _, _)
InitNodesFromKwargs(g, graph, transmission_probability) ==
    IF graph = <<>> THEN [graph |-> g, raises |-> "None"]
    ELSE IF Head(graph)[1] = Missing \/ Head(graph)[2] = Missing
    THEN [graph |-> g, raises |-> "KeyError"]
    ELSE InitNodesFromKwargs(
             AddEdgeByNodeSequence(g, Head(graph)[1], Head(graph)[2],
                                   transmission_probability),
             Tail(graph), transmission_probability)

\* Names are opaque keys to Graph, so a name that is new to a call is taken
\* to be the least name not yet in use.
NameChoices(used) == {x \in Names : \A y \in Names : y < x => y \in used}

RECURSIVE Canonical(_, _)
Canonical(graph, used) ==
    \/ graph = <<>>
    \/ /\ Head(graph)[1] \in NameChoices(used) \cup {Missing}
       /\ Head(graph)[2] \in NameChoices(used \cup ({Head(graph)[1]} \ {Missing}))
                                \cup {Missing}
       /\ Canonical(Tail(graph),
                    used \cup ({Head(graph)[1], Head(graph)[2]} \ {Missing}))

\* The positional edge lists: 2-tuples (parent, child).
EdgeLists ==
    {graph \in UNION {[1..k -> Names \X Names] : k \in 0..MaxEdges} :
        Canonical(graph, {})}

\* The graph= lists: records <<from_, to_>>, either key possibly absent.
RecordLists ==
    {graph \in UNION {[1..k -> (Names \cup {Missing}) \X (Names \cup {Missing})] :
                          k \in 0..MaxEdges} :
        Canonical(graph, {})}

UsedNames(tpOf) == {Name(n) : n \in Created(tpOf)}

\* Graph.__init__
GraphInit(form, graph, transmission_probability) ==
    IF form = "kwargs"
    THEN InitNodesFromKwargs(EmptyGraph, graph, transmission_probability)
    ELSE InitNodesFromArgs(EmptyGraph, graph)

Graph == [nodes |-> nodes, edges |-> edges, nodeTP |-> nodeTP]

\* What the last call was: its name, its set of Node arguments (the seeds of
\* infect_seeds, the nodes whose policy says yes for recover), the index
\* before it, and its log.  The constructor's record also holds its arguments.
Done(op, args, s) ==
    [op |-> op, args |-> args, pre |-> infected, log |-> s]

Init ==
    \E form \in {"args", "kwargs"}, graph \in RecordLists,
       transmission_probability \in TPArgs, d \in BOOLEAN, u \in UserTPs :
        LET r == GraphInit(form, graph, transmission_probability)
            g == r.graph
        IN /\ form = "args" => graph \in EdgeLists
           /\ Cardinality(Created(g.nodeTP)) <= MaxNodes
           /\ nodes = g.nodes
           /\ edges = g.edges
           /\ nodeTP = g.nodeTP
           /\ infected = [x \in Names |-> NoNode]
           /\ userTP = u
           /\ callerNodes = 0
           /\ call = [op |-> "__init__", args |-> {}, pre |-> infected,
                      log |-> Log0(infected),
                      form |-> form, graph |-> graph, directed |-> d,
                      transmission_probability |-> transmission_probability,
                      raises |-> r.raises]

\* The constructor returned: there is a Graph to call.
Constructed == call.op = "__init__" => call.raises = "None"

\* ----------------------------------------------------------------- actions
\* The caller constructs a Node of its own.
NewNode(name, transmission_probability) ==
    /\ CanCreate(Created(nodeTP), 1)
    /\ callerNodes < MaxCallerNodes
    /\ callerNodes' = callerNodes + 1
    /\ nodeTP' = [nodeTP EXCEPT ![Fresh(name, Created(nodeTP))] =
                      BoundTP(transmission_probability)]
    /\ call' = Done("Node", {}, Log0(infected))
    /\ UNCHANGED <<nodes, infected, edges, userTP>>

add_edge_by_node_sequence(parent, child, transmission_probability) ==
    /\ Room(Graph, parent, child)
    /\ LET g == AddEdgeByNodeSequence(Graph, parent, child, transmission_probability)
       IN /\ nodes' = g.nodes
          /\ edges' = g.edges
          /\ nodeTP' = g.nodeTP
    /\ call' = [op |-> "add_edge_by_node_sequence", args |-> {}, pre |-> infected,
                log |-> Log0(infected), parent |-> parent, child |-> child]
    /\ UNCHANGED <<infected, userTP, callerNodes>>

add_node(node) ==
    /\ nodes' = AddNode(nodes, node)
    /\ call' = Done("add_node", {}, Log0(infected))
    /\ UNCHANGED <<infected, edges, nodeTP, userTP, callerNodes>>

\* An add_edge that registers the parent only.
add_edge_parent_only(from_, to_) ==
    /\ EdgeCount(edges) < MaxEdges
    /\ nodes' = AddNode(nodes, from_)
    /\ edges' = AddChild(edges, from_, to_)
    /\ call' = Done("add_edge", {}, Log0(infected))
    /\ UNCHANGED <<infected, nodeTP, userTP, callerNodes>>

\* Graph.add_edge: "from_ not in self.__nodes" looks a Node up among the
\* names, so both add_node calls are always made.
add_edge(from_, to_) ==
    /\ EdgeCount(edges) < MaxEdges
    /\ nodes' = AddNode(AddNode(nodes, from_), to_)
    /\ edges' = AddChild(edges, from_, to_)
    /\ call' = Done("add_edge", {}, Log0(infected))
    /\ UNCHANGED <<infected, nodeTP, userTP, callerNodes>>

\* Graph.set_infection: the installed wrapper i differs from the one before
\* only in the callback it calls, and a callback is an observer here (its run
\* is recorded by Callback), so every installed i is the same procedure.
set_infection(callback) ==
    /\ call' = Done("set_infection", {}, Log0(infected))
    /\ UNCHANGED <<nodes, infected, edges, nodeTP, userTP, callerNodes>>

\* Graph.set_recovery: the wrapper r never calls the callback it captures, so
\* every installed r is the same procedure.
set_recovery(callback) ==
    /\ call' = Done("set_recovery", {}, Log0(infected))
    /\ UNCHANGED <<nodes, infected, edges, nodeTP, userTP, callerNodes>>

\* An infect_seeds that registers the seeds it is given.
RECURSIVE AddNodes(_, _)
AddNodes(reg, order) ==
    IF order = <<>> THEN reg ELSE AddNodes(AddNode(reg, Head(order)), Tail(order))

infect_seeds_registering(seed_nodes) ==
    \E order \in Orders(seed_nodes, SeedsCompete(seed_nodes)) :
        LET s == InfectSeeds(infected, order)
        IN /\ infected' = s.infected
           /\ nodes' = AddNodes(nodes, order)
           /\ call' = Done("infect_seeds", seed_nodes, s)
           /\ UNCHANGED <<edges, nodeTP, userTP, callerNodes>>

infect_seeds(seed_nodes) ==
    \E order \in Orders(seed_nodes, SeedsCompete(seed_nodes)) :
        LET s == InfectSeeds(infected, order)
        IN /\ infected' = s.infected
           /\ call' = Done("infect_seeds", seed_nodes, s)
           /\ UNCHANGED <<nodes, edges, nodeTP, userTP, callerNodes>>

\* A propagate that loops over nodes() instead of infected().
propagate_over_nodes ==
    \E order \in Orders(Nodes(nodes), TRUE) :
        LET s == Propagate(edges, infected, order,
                           {<<n, c>> \in Inst \X Names : edges[n][c].mult > 0})
        IN /\ infected' = s.infected
           /\ call' = Done("propagate", {}, s)
           /\ UNCHANGED <<nodes, edges, nodeTP, userTP, callerNodes>>

propagate ==
    \E order \in Orders(Infected(infected), ChildrenCompete(edges, Infected(infected))),
       D \in DrawsOf(edges, nodeTP, userTP, infected) :
        LET s == Propagate(edges, infected, order, D)
        IN /\ infected' = s.infected
           /\ call' = Done("propagate", {}, s)
           /\ UNCHANGED <<nodes, edges, nodeTP, userTP, callerNodes>>

recover ==
    \E order \in Orders(Infected(infected), FALSE), C \in SUBSET Infected(infected) :
        /\ LET s == Recover(infected, order, C)
           IN /\ infected' = s.infected
              /\ call' = Done("recover", C, s)
              /\ UNCHANGED <<nodes, edges, nodeTP, userTP, callerNodes>>

\* A constructor that raised leaves no Graph, so no call follows it.
Next ==
    \/ Constructed /\ \E name \in NameChoices(UsedNames(nodeTP)) : NewNode(name, "user")
    \/ Constructed /\ \E parent \in NameChoices(UsedNames(nodeTP)), f \in TPArgs :
           \E child \in NameChoices(UsedNames(nodeTP) \cup {parent}) :
               add_edge_by_node_sequence(parent, child, f)
    \/ Constructed /\ \E node \in Created(nodeTP) : add_node(node)
    \/ Constructed /\ \E from_ \in Created(nodeTP), to_ \in Created(nodeTP) :
           add_edge(from_, to_)
    \/ Constructed /\ \E callback \in CallbackIds : set_infection(callback)
    \/ Constructed /\ \E callback \in CallbackIds : set_recovery(callback)
    \/ Constructed /\ \E seed_nodes \in SUBSET Created(nodeTP) : infect_seeds(seed_nodes)
    \/ Constructed /\ propagate
    \/ Constructed /\ recover

Spec == Init /\ [][Next]_vars

\* ------------------------------------ the default transmission probability
\* A Graph constructed without a transmission_probability keyword.
InitTP ==
    /\ Init
    /\ call.transmission_probability = "None"
    /\ ~call.directed
    /\ userTP = "one"

\* add_edge_by_node_sequence(parent, child), no keyword given: the nodes it
\* creates are bound to the default rule.
add_edge_by_node_sequence_default(parent, child) ==
    /\ CanCreate(Created(nodeTP),
                 (IF nodes[parent] = NoNode THEN 1 ELSE 0)
                 + (IF nodes[child] = NoNode THEN 1 ELSE 0))
    /\ EdgeCount(edges) < MaxDegree
    /\ LET g == AddEdgeByNodeSequence(Graph, parent, child, "None")
       IN /\ nodes' = g.nodes
          /\ edges' = g.edges
          /\ nodeTP' = g.nodeTP
    /\ call' = [op |-> "add_edge_by_node_sequence", args |-> {}, pre |-> infected,
                log |-> Log0(infected), parent |-> parent, child |-> child]
    /\ UNCHANGED <<infected, userTP, callerNodes>>

\* The sequences of nodes the rule bound to from_node is evaluated on: one
\* node of the graph, or the children of all the edges of from_node, in any
\* order.
Targets(from_node) ==
    {<<n>> : n \in Nodes(nodes)} \cup Perms(DrawsAgainst(edges, from_node))

\* The default rule, as bound to from_node, is evaluated on (from_node, n) for
\* every n of to_nodes in turn.
transmission_probability(from_node, to_nodes) ==
    /\ nodeTP[from_node] = "default"
    /\ call' = [op |-> "tp", args |-> {}, pre |-> infected, log |-> Log0(infected),
                from_node |-> from_node, to_nodes |-> to_nodes,
                results |-> [k \in DOMAIN to_nodes |-> tp(edges, from_node, to_nodes[k])]]
    /\ UNCHANGED <<nodes, infected, edges, nodeTP, userTP, callerNodes>>

NextTP ==
    \/ Constructed /\ \E parent \in NameChoices(UsedNames(nodeTP)) :
           \E child \in NameChoices(UsedNames(nodeTP) \cup {parent}) :
               add_edge_by_node_sequence_default(parent, child)
    \/ Constructed /\ \E from_node \in Nodes(nodes) :
           \E to_nodes \in Targets(from_node) :
               transmission_probability(from_node, to_nodes)

SpecTP == InitTP /\ [][NextTP]_vars


\* ================================================================== claims
Events == call.log.events

\* How many times the event ev happened in the last call.
Occurs(ev) == Cardinality({k \in DOMAIN Events : Events[k] = ev})

\* Two sets of Node objects hold the same nodes.
SameNodes(A, B) ==
    /\ \A a \in A : \E b \in B : NodeEq(a, b)
    /\ \A b \in B : \E a \in A : NodeEq(a, b)

KeysRegistered == Keys(infected) \subseteq Keys(nodes)

Partition ==
    /\ SameNodes(Nodes(nodes), Infected(infected) \cup Susceptible(nodes, infected))
    /\ \A a \in Infected(infected), b \in Susceptible(nodes, infected) : ~NodeEq(a, b)

\* C1 as stated: in every state reached by any sequence of construction,
\* add_node, add_edge, infect_seeds, propagate and recover calls, every name
\* of the infected index is a key of the registry, and nodes() is the disjoint
\* union of infected() and susceptible().
C1_AnySequence == KeysRegistered /\ Partition

SeedsRegistered ==
    call.op = "infect_seeds" => \A n \in call.args : nodes[Name(n)] # NoNode

\* C1, amended: the index is empty after construction, and every call keeps
\* "every infected name is registered, and nodes() is the disjoint union of
\* infected() and susceptible()", unless it is an infect_seeds call given a
\* node whose name is not registered.
C1_RegisteredSeeds ==
    /\ C1_AnySequence
    /\ [][(C1_AnySequence /\ SeedsRegistered') => C1_AnySequence']_vars

C1_Witness ==
    /\ call.op = "propagate"
    /\ C1_AnySequence
    /\ Cardinality(Keys(infected)) > Cardinality(Keys(call.pre))
    /\ Susceptible(nodes, infected) # {}
    /\ callerNodes > 0


\* ---------------------------------------------------------------------- C2
PreInfected == Infected(call.pre)

\* C2: one propagate() call invokes Node.propagate exactly once on each node
\* that was in the infected index when the call started, and on no other
\* node, so in particular not on a node infected during the call.
C2_SnapshotPropagates ==
    call.op = "propagate" =>
        \A n \in Inst :
            Occurs(Ev("Node.propagate", n)) = (IF n \in PreInfected THEN 1 ELSE 0)

\* A propagate() that infected a node which has edges of its own.
C2_Witness ==
    /\ call.op = "propagate"
    /\ \E n \in Infected(infected) \ PreInfected :
           /\ Children(edges, n) # {}
           /\ Occurs(Ev("Node.propagate", n)) = 0
    /\ \E n \in PreInfected : Occurs(Ev("Node.propagate", n)) = 1

\* ---------------------------------------------------------------------- C3
\* C3: the installed recovery procedure, invoked on a node, removes the node
\* from the index if present and then runs the caller's callback on it: every
\* "r" event is followed by a "recovery callback" event on the same node.
C3_RecoveryCallbackRuns ==
    \A k \in DOMAIN Events :
        Events[k][1] = "r" =>
            \E j \in DOMAIN Events :
                j > k /\ Events[j] = Ev("recovery callback", Events[k][2])

\* ---------------------------------------------------------------------- C4
\* C4: in a graph constructed with directed=False, transmission is attempted
\* in both directions of every edge record: the child of an edge (parent,
\* child) draws against the parent as the parent draws against the child.
C4_UndirectedBothWays ==
    (call.op = "__init__" /\ call.raises = "None" /\ ~call.directed) =>
        \A k \in DOMAIN call.graph :
            LET parent == nodes[call.graph[k][1]]
                child == nodes[call.graph[k][2]]
            IN /\ \E m \in DrawsAgainst(edges, parent) : NodeEq(m, child)
               /\ \E m \in DrawsAgainst(edges, child) : NodeEq(m, parent)

\* ---------------------------------------------------------------------- C5
\* Every node that propagates is bound to the caller's function, which is
\* constantly v.
AlwaysReturns(v) ==
    /\ userTP = v
    /\ \A n \in PreInfected : nodeTP[n] = "user"

\* C5: with a transmission-probability function that always returns 1.0,
\* after propagate() every direct out-neighbour of every node infected before
\* the call is in infected().
C5_AllNeighboursInfected ==
    (call.op = "propagate" /\ AlwaysReturns("one")) =>
        \A n \in PreInfected : \A m \in DrawsAgainst(edges, n) :
            \E x \in Infected(infected) : NodeEq(x, m)

\* Two infected nodes each infected a neighbour of theirs.
C5_Witness ==
    /\ call.op = "propagate"
    /\ AlwaysReturns("one")
    /\ Cardinality(PreInfected) >= 1
    /\ Cardinality(Keys(infected) \ Keys(call.pre)) >= 2

\* ---------------------------------------------------------------------- C6
\* C6: with a function that always returns 0.0, propagate() leaves the index
\* as it was; and an infected node with no edges makes no draw.
C6_ZeroLeavesInfected ==
    call.op = "propagate" =>
        /\ AlwaysReturns("zero") => infected = call.pre
        /\ \A n \in PreInfected :
               Children(edges, n) = {} =>
                   \A k \in DOMAIN Events : ~(Events[k][1] = "draw" /\ Events[k][2] = n)

\* A propagate() under the zero function that drew at least twice, with an
\* edgeless infected node beside.
C6_Witness ==
    /\ call.op = "propagate"
    /\ AlwaysReturns("zero")
    /\ Cardinality({k \in DOMAIN Events : Events[k][1] = "draw"}) >= 2
    /\ \E n \in PreInfected : Children(edges, n) = {}
    /\ Susceptible(nodes, infected) # {}

\* ---------------------------------------------------------------------- C7
\* C7: on an empty index, infect_seeds(S) for a set S of nodes of the graph
\* leaves infected() = S and susceptible() = nodes() - S.
C7_SeedsInfected ==
    (/\ call.op = "infect_seeds"
     /\ Keys(call.pre) = {}
     /\ call.args \subseteq Nodes(nodes)) =>
        /\ Infected(infected) = call.args
        /\ Susceptible(nodes, infected) = Nodes(nodes) \ call.args

C7_Witness ==
    /\ call.op = "infect_seeds"
    /\ Keys(call.pre) = {}
    /\ call.args \subseteq Nodes(nodes)
    /\ Cardinality(call.args) = 2
    /\ Cardinality(Nodes(nodes)) = 3

\* ---------------------------------------------------------------------- C8
\* C8: when the recovery policy of every infected node says yes, recover()
\* invokes Node.recover once on each node infected at the start of the call
\* (and on no other) and leaves infected() empty.
C8_RecoverEmpties ==
    (call.op = "recover" /\ call.args = PreInfected) =>
        /\ \A n \in Inst :
               Occurs(Ev("Node.recover", n)) = (IF n \in PreInfected THEN 1 ELSE 0)
        /\ Infected(infected) = {}

C8_Witness ==
    /\ call.op = "recover"
    /\ call.args = PreInfected
    /\ Cardinality(PreInfected) = 3
    /\ Infected(infected) = {}

\* ---------------------------------------------------------------------- C9
\* The wrapper i was invoked, in the last call, on a node whose name was a
\* key held by another Node object.
Reinfected(n) ==
    /\ Occurs(Ev("i", n)) > 0
    /\ call.pre[Name(n)] # NoNode
    /\ call.pre[Name(n)] # n

\* C9: invoking the infection procedure on a node whose name is already a key
\* leaves the index unchanged: a name that was a key before a call that only
\* infects (infect_seeds, propagate) keeps the Node object stored under it, a
\* name is added at most once, and the keys after the call are the keys
\* before it and the names added.
C9_ReinfectionKeepsIndex ==
    call.op \in {"infect_seeds", "propagate"} =>
        /\ \A x \in Keys(call.pre) : infected[x] = call.pre[x]
        /\ \A n \in Inst :
               /\ Occurs(Ev("add", n)) <= 1
               /\ Occurs(Ev("add", n)) = 1 => (call.pre[Name(n)] = NoNode /\ infected[Name(n)] = n)
        /\ Keys(infected) = Keys(call.pre) \cup {Name(n) : n \in {m \in Inst : Occurs(Ev("add", m)) = 1}}
        /\ (\A n \in Inst : Occurs(Ev("i", n)) > 0 => call.pre[Name(n)] # NoNode)
               => infected = call.pre

\* propagate() re-infected a neighbour whose name was held by another object.
C9_Witness ==
    /\ call.op = "propagate"
    /\ \E n \in Inst : Reinfected(n)
    /\ infected = call.pre

\* --------------------------------------------------------------------- C10
IsCallback(ev) == ev[1] \in {"callback", "callback unindexed"}

\* C10: every invocation of the installed infection procedure on a node runs
\* the caller's callback on that node exactly once, and the name of the node
\* is a key of the index when the callback runs: an "i" event is followed,
\* after the "add" event if there is one, by a "callback" event on the node,
\* and there are as many callback events as "i" events.
C10_CallbackOnceAfterIndex ==
    /\ \A k \in DOMAIN Events :
           Events[k][1] = "i" =>
               LET n == Events[k][2]
                   j == IF k + 1 <= Len(Events) /\ Events[k + 1] = Ev("add", n)
                        THEN k + 2 ELSE k + 1
               IN j <= Len(Events) /\ Events[j] = Ev("callback", n)
    /\ Cardinality({k \in DOMAIN Events : IsCallback(Events[k])})
           = Cardinality({k \in DOMAIN Events : Events[k][1] = "i"})

\* A call in which the procedure ran on a new node and on an infected one.
C10_Witness ==
    /\ \E n \in Inst : Occurs(Ev("add", n)) = 1 /\ Occurs(Ev("callback", n)) = 1
    /\ \E n \in Inst :
           /\ Occurs(Ev("i", n)) = 1
           /\ Occurs(Ev("add", n)) = 0
           /\ Occurs(Ev("callback", n)) = 1

\* --------------------------------------------------------------------- C11
\* C11: the default transmission-probability function, evaluated for a parent
\* of degree 0 and any child, returns exactly 0.0 and raises no error.
C11_ZeroDegreeReturnsZero ==
    (call.op = "tp" /\ Degree(edges, call.from_node) = 0) =>
        \A k \in DOMAIN call.results : call.results[k] = Returns(Zero)

\* --------------------------------------------------------------------- C13
\* The last call evaluated the default rule of a node of degree > 0 on the
\* children of all its edges.
AllEdgesEvaluated ==
    /\ call.op = "tp"
    /\ Degree(edges, call.from_node) > 0
    /\ Len(call.to_nodes) = Cardinality(DrawsAgainst(edges, call.from_node))
    /\ {call.to_nodes[k] : k \in DOMAIN call.to_nodes} = DrawsAgainst(edges, call.from_node)

\* The multiplicity of the edge the k-th evaluation was about.
MultOf(k) == edges[call.from_node][Name(call.to_nodes[k])].mult

RECURSIVE SumOfMults(_)
SumOfMults(k) == IF k = 0 THEN 0 ELSE MultOf(k) + SumOfMults(k - 1)

\* The float sum of the first k results, left to right.
RECURSIVE SumOfResults(_)
SumOfResults(k) ==
    IF k = 1 THEN call.results[1].value
    ELSE FloatAdd(SumOfResults(k - 1), call.results[k].value)

\* v is a double nearest to the rational m / d: v * d is within half a unit
\* in the last place, times d, of m (in units of 2^-60).
NearestDouble(v, m, d) ==
    LET u == 2^(Log2(v[1]) - 12)
        x == Carry(<<v[1] * d, v[2] * d, v[3] * d>>)
    IN \/ x[1] = m * Limb /\ x[2] = 0 /\ 2 * x[3] <= d * u
       \/ x[1] = m * Limb - 1 /\ x[2] = Limb - 1 /\ 2 * (Limb - x[3]) <= d * u

\* Every probability is the quotient multiplicity / degree as a float, and
\* lies in (0, 1]; the multiplicities sum to the degree.
QuotientsOfDegree ==
    /\ \A k \in DOMAIN call.results :
           /\ call.results[k].raises = "None"
           /\ NearestDouble(call.results[k].value, MultOf(k),
                            Degree(edges, call.from_node))
           /\ call.results[k].value # Zero
           /\ FloatLeq(call.results[k].value, One)
    /\ SumOfMults(Len(call.to_nodes)) = Degree(edges, call.from_node)

\* C13 as stated: for a parent of degree > 0 the default probability toward a
\* child is multiplicity / degree, each lies in (0, 1], and the probabilities
\* over all the out-edges of the node sum to exactly 1.
C13_SumExactlyOne ==
    AllEdgesEvaluated =>
        /\ QuotientsOfDegree
        /\ SumOfResults(Len(call.results)) = One

\* Within 2^-52 of 1.0.
NearOne(x) ==
    x \in {One, <<Limb, 0, 256>>,
           <<Limb - 1, Limb - 1, Limb - 128>>, <<Limb - 1, Limb - 1, Limb - 256>>}

\* C13, amended: for a parent of degree > 0 the default probability toward a
\* child is the float nearest to multiplicity / degree and lies in (0, 1], the
\* multiplicities sum to the degree, and the float sum of the probabilities
\* of a node with up to three edges is within 2^-52 of 1.0, in any order of
\* summation, and is exactly 1.0 for a node with one edge.
C13_SumOneRounded ==
    AllEdgesEvaluated =>
        /\ QuotientsOfDegree
        /\ NearOne(SumOfResults(Len(call.results)))
        /\ Len(call.results) = 1 => SumOfResults(1) = One

\* Three edges of a node of degree 6 whose probabilities do not sum to 1.0.
C13_Witness ==
    /\ AllEdgesEvaluated
    /\ Len(call.results) = 3
    /\ Degree(edges, call.from_node) = 6
    /\ SumOfResults(3) # One

\* --------------------------------------------------------------------- C12
\* C12: a transmission_probability function passed as a keyword to the
\* constructor is the function bound to every node created during
\* construction, with the positional edge list as with the graph= list; the
\* default rule is bound only when no function is passed.
C12_KeywordFunctionBound ==
    (call.op = "__init__" /\ call.raises = "None") =>
        \A n \in Created(nodeTP) :
            nodeTP[n] = (IF call.transmission_probability = "None"
                         THEN "default" ELSE "user")

\* --------------------------------------------------------------------- C14
\* How many records of the list are the pair rec.
Occurrences(graph, rec) == Cardinality({k \in DOMAIN graph : graph[k] = rec})

\* An add_edge_by_node_sequence(parent, child) step adds one to the
\* multiplicity of the edge from the node registered as parent to the name
\* child and to the degree of that node, and touches no other edge; when the
\* pair has an edge already, no Node and no Edge is created.
PairAdded ==
    call'.op = "add_edge_by_node_sequence" =>
        LET a == call'.parent
            b == call'.child
            p == nodes'[a]
        IN /\ p # NoNode
           /\ nodes[a] # NoNode => p = nodes[a]
           /\ edges'[p][b].mult = edges[p][b].mult + 1
           /\ Degree(edges', p) = Degree(edges, p) + 1
           /\ \A n \in Inst, c \in Names :
                  <<n, c>> # <<p, b>> => edges'[n][c] = edges[n][c]
           /\ (nodes[a] # NoNode /\ edges[p][b].mult > 0) =>
                  /\ Created(nodeTP') = Created(nodeTP)
                  /\ nodes' = nodes
                  /\ Children(edges', p) = Children(edges, p)
                  /\ edges'[p][b].child = edges[p][b].child

\* C14: adding the same (parent, child) pair k times, through construction or
\* add_edge_by_node_sequence, gives one Edge from parent to child of
\* multiplicity k, adds k to the degree of the parent, and the repeats create
\* no second Edge and no Node: after construction a pair given k times has
\* one Edge of multiplicity k and the degree of a parent is the number of
\* records it is the parent of, and every later addition is as PairAdded says.
C14_RepeatAddsMultiplicity ==
    /\ []((call.op = "__init__" /\ call.raises = "None") =>
            \A a \in Names :
                LET given == {b \in Names : Occurrences(call.graph, <<a, b>>) > 0}
                IN given # {} =>
                       /\ nodes[a] # NoNode
                       /\ Children(edges, nodes[a]) = given
                       /\ \A b \in given :
                              edges[nodes[a]][b].mult
                                  = Occurrences(call.graph, <<a, b>>)
                       /\ Degree(edges, nodes[a])
                              = Cardinality({k \in DOMAIN call.graph :
                                                call.graph[k][1] = a}))
    /\ [][PairAdded]_vars

\* A pair added for the third time, to a parent that has another edge.
C14_Witness ==
    /\ call.op = "add_edge_by_node_sequence"
    /\ edges[nodes[call.parent]][call.child].mult = 3
    /\ Cardinality(Children(edges, nodes[call.parent])) = 2

\* --------------------------------------------------------------------- C15
Endpoints(graph) ==
    {graph[k][1] : k \in DOMAIN graph} \cup {graph[k][2] : k \in DOMAIN graph}

\* C15: construction from an edge list yields exactly one Node per distinct
\* endpoint name (one Node object is made per name, the registry holds it,
\* and every edge leads to the registered Node of its child name), the degree
\* of a node is the number of records it is the parent of, and a registered
\* name keeps its first instance.
C15_OneNodePerName ==
    /\ (call.op = "__init__" /\ call.raises = "None") =>
           /\ Keys(nodes) = Endpoints(call.graph)
           /\ Cardinality(Created(nodeTP)) = Cardinality(Endpoints(call.graph))
           /\ \A n \in Created(nodeTP) : \A c \in Children(edges, n) :
                  edges[n][c].child = GetNodeByName(nodes, c)
           /\ \A a \in Keys(nodes) :
                  Degree(edges, nodes[a])
                      = Cardinality({k \in DOMAIN call.graph : call.graph[k][1] = a})
    /\ [][\A x \in Names : nodes[x] # NoNode => nodes'[x] = nodes[x]]_vars

\* --------------------------------------------------------------------- C16
Malformed(graph) ==
    \E k \in DOMAIN graph : graph[k][1] = Missing \/ graph[k][2] = Missing

\* C16: constructing a Graph from a graph= list with a record that lacks
\* from_ or to_ raises an error; no call is ever made on a Graph whose
\* constructor raised, and a constructor that returns has wired every record.
C16_MalformedRecordFails ==
    /\ (call.op = "__init__" /\ call.form = "kwargs") =>
           /\ Malformed(call.graph) <=> call.raises = "KeyError"
           /\ call.raises = "None" =>
                  \A k \in DOMAIN call.graph :
                      /\ nodes[call.graph[k][1]] # NoNode
                      /\ edges[nodes[call.graph[k][1]]][call.graph[k][2]].mult
                             = Occurrences(call.graph, call.graph[k])
    /\ [][Constructed]_vars

\* A list whose second record lacks to_, after a well-formed first one.
C16_Witness ==
    /\ call.op = "__init__"
    /\ call.form = "kwargs"
    /\ call.raises = "KeyError"
    /\ Len(call.graph) = 2
    /\ ~Malformed(<<call.graph[1]>>)
    /\ call.graph[2][2] = Missing
    /\ Keys(nodes) # {}

\* --------------------------------------------------------------------- C17
\* The step added n to the index inside the infection wrapper.
AddedByWrapper(n) ==
    \E k \in DOMAIN call'.log.events :
        /\ k > 1
        /\ call'.log.events[k] = Ev("add", n)
        /\ call'.log.events[k - 1] = Ev("i", n)

\* The step removed the name x from the index inside the recovery wrapper.
PoppedByWrapper(x) ==
    \E k \in DOMAIN call'.log.events :
        /\ k > 1
        /\ call'.log.events[k][1] = "pop"
        /\ Name(call'.log.events[k][2]) = x
        /\ call'.log.events[k - 1] = Ev("r", call'.log.events[k][2])

\* C17: the registry is never shrunk, it is left unchanged by infect_seeds,
\* propagate, recover, set_infection and set_recovery and changes only in
\* add_node, add_edge and add_edge_by_node_sequence; an entry of the infected
\* index changes only by an addition inside the infection wrapper or a
\* removal inside the recovery wrapper.
C17_RegistryAndIndexFrame ==
    [][/\ \A x \in Names : nodes[x] # NoNode => nodes'[x] # NoNode
       /\ call'.op \in {"infect_seeds", "propagate", "recover",
                        "set_infection", "set_recovery"} => nodes' = nodes
       /\ nodes' # nodes =>
              call'.op \in {"add_node", "add_edge", "add_edge_by_node_sequence"}
       /\ \A x \in Names :
              infected'[x] # infected[x] =>
                  \/ infected[x] = NoNode /\ AddedByWrapper(infected'[x])
                  \/ infected'[x] = NoNode /\ PoppedByWrapper(x)]_vars

\* A recover() that removed a node, on a graph of three nodes.
C17_Witness ==
    /\ call.op = "recover"
    /\ Keys(infected) # Keys(call.pre)
    /\ \E k \in DOMAIN Events : Events[k][1] = "pop"
    /\ Cardinality(Keys(nodes)) = 3

\* --------------------------------------------------------------------- C18
\* C18: right after construction infected() is empty and every node is in
\* susceptible(); a node of the graph that recover() removes from the index
\* is in susceptible() again; and a node recover() has just removed enters
\* the index again when the next call is an infect_seeds that names it or a
\* propagate() whose draw for it succeeds.
C18_SusceptibleAgain ==
    /\ [](call.op = "__init__" =>
             /\ Infected(infected) = {}
             /\ Susceptible(nodes, infected) = Nodes(nodes))
    /\ [](call.op = "recover" =>
             \A n \in call.args :
                 /\ infected[Name(n)] = NoNode
                 /\ nodes[Name(n)] # NoNode =>
                        nodes[Name(n)] \in Susceptible(nodes, infected))
    /\ [][\A n \in Inst :
              (call.op = "recover" /\ n \in call.args) =>
                  /\ (call'.op = "infect_seeds" /\ n \in call'.args) =>
                         \E m \in Infected(infected') : NodeEq(m, n)
                  /\ (/\ call'.op = "propagate"
                      /\ \E k \in DOMAIN call'.log.events :
                             call'.log.events[k] = Ev("Node.infect", n)) =>
                         \E m \in Infected(infected') : NodeEq(m, n)]_vars

\* A recover() after which one node is susceptible again and another is still
\* infected.
C18_Witness ==
    /\ call.op = "recover"
    /\ \E n \in call.args : nodes[Name(n)] \in Susceptible(nodes, infected)
    /\ Keys(infected) # {}

\* --------------------------------------------------------------------- C19
\* C19: propagate() removes no node from the index, and a node it adds is the
\* child of an edge of a node that was infected when the call started;
\* recover() adds none.
C19_MonotoneSteps ==
    /\ call.op = "propagate" =>
           /\ \A x \in Keys(call.pre) : infected[x] = call.pre[x]
           /\ \A x \in Keys(infected) \ Keys(call.pre) :
                  \E n \in PreInfected : infected[x] \in DrawsAgainst(edges, n)
    /\ call.op = "recover" =>
           \A x \in Keys(infected) : infected[x] = call.pre[x]

\* A propagate() that infected one more node while a node with edges that
\* was not infected made no draw.
C19_Witness ==
    /\ call.op = "propagate"
    /\ Keys(call.pre) # {}
    /\ Cardinality(Keys(infected) \ Keys(call.pre)) = 1
    /\ \E n \in Nodes(nodes) \ PreInfected : Children(edges, n) # {}

\* --------------------------------------------------------------------- C20
\* C20: a propagate() or recover() on an empty index leaves it empty and
\* invokes no Node.propagate and no Node.recover (no event at all), so the
\* empty index lasts through any run of the two.
C20_EmptyIsAbsorbing ==
    [][(Keys(infected) = {} /\ call'.op \in {"propagate", "recover"}) =>
           /\ Keys(infected') = {}
           /\ call'.log.events = <<>>]_vars

\* A propagate() on an empty index of a graph that has nodes and edges.
C20_Witness ==
    /\ call.op = "propagate"
    /\ Keys(call.pre) = {}
    /\ Keys(infected) = {}
    /\ Events = <<>>
    /\ EdgeCount(edges) = MaxEdges
    /\ Cardinality(Keys(nodes)) = 3

====
